---- MODULE Spec2Model ----
(***************************************************************************)
(* Allocation and settlement engine of simple_split_bill (src/app.py).     *)
(*                                                                         *)
(* Units.  Quantities are counted in halves (the UI step is 0.5), money in *)
(* cents.  Intermediate values that Python keeps as floats (unit prices,   *)
(* unrounded subtotals, tax shares) are exact rationals [n, d] with d > 0. *)
(* Raw inputs are either numbers or text; float() is ParseFloat.           *)
(***************************************************************************)
EXTENDS Integers, Sequences, FiniteSets, TLC

VARIABLES items, people, shares, tax, ret

vars == <<items, people, shares, tax, ret>>

\* The session state the core reads and writes (everything but the last result).
state == <<items, people, shares, tax>>

(***************************************************************************)
(* Bounds and input sets                                                   *)
(***************************************************************************)
\* Largest quantity, in halves, that is entered for an item or a share.
MaxQty == 2

ItemNames == {"Burger", "Fries"}
PersonNames == {"Ann", "Bo"}

Num(v) == [kind |-> "num", val |-> v]
Text(s) == [kind |-> "text", val |-> s]

\* Raw quantities: numbers (negative ones too) and text.
QtyInputs == {Num(h) : h \in -1..MaxQty} \cup {Text("abc")}
\* Raw total prices, in cents.
PriceInputs == {Num(-100), Num(1000), Text("abc")}
\* The tax widget has min_value=0.0.
TaxInputs == {0, 1, 150}

(***************************************************************************)
(* Numbers                                                                 *)
(***************************************************************************)
Abs(x) == IF x < 0 THEN -x ELSE x

\* float(x): a number converts to itself, text that is no number raises
\* ValueError (ok = FALSE).
ParseFloat(raw) ==
    IF raw.kind = "num" THEN [ok |-> TRUE, val |-> raw.val]
    ELSE [ok |-> FALSE, val |-> 0]

Rat(n, d) == IF d < 0 THEN [n |-> -n, d |-> -d] ELSE [n |-> n, d |-> d]
RatAdd(a, b) == Rat(a.n * b.d + b.n * a.d, a.d * b.d)
RatMul(a, b) == Rat(a.n * b.n, a.d * b.d)
RatDiv(a, b) == Rat(a.n * b.d, a.d * b.n)

\* Floor of n/d for d > 0.
FloorDiv(n, d) == IF n >= 0 THEN n \div d ELSE -((-n + d - 1) \div d)

\* round(x, 2) of an amount of cents x = n/d: the nearest cent, ties to even.
Round2(x) ==
    LET f == FloorDiv(x.n, x.d)
        r == x.n - f * x.d
    IN  IF 2 * r < x.d THEN f
        ELSE IF 2 * r > x.d THEN f + 1
        ELSE IF f % 2 = 0 THEN f ELSE f + 1

\* fmt_num on a value of x hundredths: f"{v:,.2f}", then ".00" dropped, else
\* trailing zeros stripped.  The text is [neg, int (groups of thousands), frac].
RECURSIVE Groups(_)
Groups(n) == IF n < 1000 THEN <<n>> ELSE Append(Groups(n \div 1000), n % 1000)

fmt_num(x) ==
    LET a == Abs(x)
        frac == a % 100
    IN  [neg |-> x < 0,
         int |-> Groups(a \div 100),
         frac |-> IF frac = 0 THEN <<>>
                  ELSE IF frac % 10 = 0 THEN <<frac \div 10>>
                  ELSE <<frac \div 10, frac % 10>>]

\* str(float) of a quantity of h halves: "1.0", "0.5", "-0.5".
float_str(h) ==
    [neg |-> h < 0, int |-> <<Abs(h) \div 2>>, frac |-> <<(Abs(h) % 2) * 5>>]

NoText == [neg |-> FALSE, int |-> <<>>, frac |-> <<>>]

(***************************************************************************)
(* Dictionaries                                                            *)
(***************************************************************************)
\* A ledger row is a dict item -> qty in insertion order: a sequence of
\* [item, qty] with distinct items.
HasKey(row, item) == \E k \in 1..Len(row) : row[k].item = item
Get(row, item, default) ==
    IF HasKey(row, item)
    THEN row[CHOOSE k \in 1..Len(row) : row[k].item = item].qty
    ELSE default
\* Storing an entry by removing the key and inserting it again: an updated
\* key moves to the end.
RECURSIVE Without(_, _)
Without(row, item) ==
    IF row = <<>> THEN <<>>
    ELSE IF Head(row).item = item THEN Without(Tail(row), item)
    ELSE <<Head(row)>> \o Without(Tail(row), item)
Put_reinsert(row, item, q) == Append(Without(row, item), [item |-> item, qty |-> q])

Put(row, item, q) ==
    IF HasKey(row, item)
    THEN [k \in 1..Len(row) |->
            IF row[k].item = item THEN [item |-> item, qty |-> q] ELSE row[k]]
    ELSE Append(row, [item |-> item, qty |-> q])

\* shares[person] on the defaultdict: the row, empty when there is none yet.
Row(p) == IF p \in DOMAIN shares THEN shares[p] ELSE <<>>
\* The ledger after shares[person] was read (a missing row is created).
Touch(p) == IF p \in DOMAIN shares THEN shares ELSE (p :> <<>>) @@ shares

RECURSIVE SumOver(_, _)
SumOver(f, S) ==
    IF S = {} THEN 0
    ELSE LET x == CHOOSE y \in S : TRUE IN f[x] + SumOver(f, S \ {x})

(***************************************************************************)
(* Core logic                                                              *)
(***************************************************************************)
\* The result of the last call: which operation, the message kind, the item
\* and number the message carries, and all_totals' mapping.
Result(op, kind, item, num, totals) ==
    [op |-> op, kind |-> kind, item |-> item, num |-> num, totals |-> totals]
NoTotals == [p \in {} |-> 0]

Init ==
    /\ items = [i \in {} |-> [qty |-> 0, total_price |-> 0]]
    /\ people = [p \in {} |-> [email |-> ""]]
    /\ shares = [p \in {} |-> <<>>]
    /\ tax = 0
    /\ ret = Result("start", "none", "", NoText, NoTotals)

\* unit_price(item): total_price / qty, 0.0 when qty is 0 (cents per half-unit
\* count: the quantity of h halves is h/2).
unit_price(item) ==
    LET data == items[item]
    IN  IF data.qty # 0
        THEN RatDiv(Rat(data.total_price, 1), Rat(data.qty, 2))
        ELSE Rat(0, 1)

\* shares[p].get(item, 0) on a ledger sh, without creating the row.
share_of(sh, p, item) == IF p \in DOMAIN sh THEN Get(sh[p], item, 0) ELSE 0

\* Sum of every row's entry for the item in a ledger sh (absent = 0).
used_in(sh, item) ==
    SumOver([p \in DOMAIN sh |-> Get(sh[p], item, 0)], DOMAIN sh)

used_qty(item) == used_in(shares, item)

remaining_qty(item) == items[item].qty - used_qty(item)

RECURSIVE RowTotal(_, _)
RowTotal(row, k) ==
    IF k = 0 THEN Rat(0, 1)
    ELSE RatAdd(RowTotal(row, k - 1),
                RatMul(Rat(row[k].qty, 2), unit_price(row[k].item)))

\* person_total keeping only the last entry of the row (total = instead of
\* total +=).
person_total_last_entry(person) ==
    LET row == Row(person)
    IN  IF Len(row) = 0 THEN Rat(0, 1)
        ELSE RatMul(Rat(row[Len(row)].qty, 2), unit_price(row[Len(row)].item))

person_total(person) == RowTotal(Row(person), Len(Row(person)))

\* person_breakdown(person): one line per entry of the row with qty > 0, in
\* the row's order.
RECURSIVE BreakdownLines(_, _)
BreakdownLines(row, k) ==
    IF k = 0 THEN <<>>
    ELSE LET qty == row[k].qty
             up == unit_price(row[k].item)
         IN  IF qty <= 0 THEN BreakdownLines(row, k - 1)
             ELSE Append(BreakdownLines(row, k - 1),
                         [item |-> row[k].item, qty |-> qty,
                          unit |-> Round2(up),
                          subtotal |-> Round2(RatMul(Rat(qty, 2), up))])

person_breakdown(person) == BreakdownLines(Row(person), Len(Row(person)))

\* The filter written as "if shares[p]": the row holds some entry.
any_entry(p) == Len(Row(p)) > 0

\* any(shares[p].values()): some stored value is truthy (non-zero).
any_share(p) == \E k \in 1..Len(Row(p)) : Row(p)[k].qty # 0

subtotals_of ==
    [p \in {q \in DOMAIN people : any_share(q)} |-> Round2(person_total(p))]

\* all_totals splitting the tax equally among the included participants.
totals_equal_split(tax_total) ==
    LET subtotals == subtotals_of
        n == Cardinality(DOMAIN subtotals)
    IN  [p \in DOMAIN subtotals |->
            Round2(RatAdd(Rat(subtotals[p], 1), Rat(tax_total, n)))]

\* all_totals leaving the tax out of the totals.
totals_no_tax(tax_total) ==
    LET subtotals == subtotals_of
    IN  [p \in DOMAIN subtotals |-> Round2(Rat(subtotals[p], 1))]

\* all_totals splitting the tax equally when the subtotals sum to 0.
totals_zero_sum_equal(tax_total) ==
    LET subtotals == subtotals_of
        total_sub == SumOver(subtotals, DOMAIN subtotals)
        n == Cardinality(DOMAIN subtotals)
        tax_share(sub) ==
            IF total_sub > 0
            THEN RatMul(RatDiv(Rat(sub, 1), Rat(total_sub, 1)), Rat(tax_total, 1))
            ELSE Rat(tax_total, n)
    IN  [p \in DOMAIN subtotals |->
            Round2(RatAdd(Rat(subtotals[p], 1), tax_share(subtotals[p])))]

\* all_totals() when st.session_state["tax"] holds tax_total.
totals_with(tax_total) ==
    LET subtotals == subtotals_of
        total_sub == SumOver(subtotals, DOMAIN subtotals)
        tax_share(sub) ==
            IF total_sub > 0
            THEN RatMul(RatDiv(Rat(sub, 1), Rat(total_sub, 1)), Rat(tax_total, 1))
            ELSE Rat(0, 1)
    IN  [p \in DOMAIN subtotals |->
            Round2(RatAdd(Rat(subtotals[p], 1), tax_share(subtotals[p])))]

all_totals == totals_with(tax)

\* fmt_num on an amount of x = n/d cents: f"{v:,.2f}" rounds it to the cent.
fmt_amount(x) == fmt_num(Round2(x))

\* build_email_body's total_all taken over every ledger row.
email_total_all_rows ==
    LET included == {p \in DOMAIN shares : any_share(p)}
    IN  SumOver([p \in included |-> Round2(person_total(p))], included)

\* build_email_body(person), the tax split: the persons whose subtotals make
\* up total_all, the numbers, and the texts of the three lines.
email_included == {p \in DOMAIN people : any_share(p)}
email_total_all ==
    SumOver([p \in email_included |-> Round2(person_total(p))], email_included)
email_tax_split(person) ==
    LET subtotal == Round2(person_total(person))
        total_all == email_total_all
        tax_share ==
            IF total_all > 0
            THEN RatMul(RatDiv(Rat(subtotal, 1), Rat(total_all, 1)), Rat(tax, 1))
            ELSE Rat(0, 1)
        total_incl_tax == RatAdd(Rat(subtotal, 1), tax_share)
    IN  [subtotal |-> subtotal, tax_share |-> tax_share,
         total_incl_tax |-> total_incl_tax,
         subtotal_line |-> fmt_num(subtotal),
         tax_line |-> fmt_amount(tax_share),
         total_line |-> fmt_amount(total_incl_tax)]

\* The rows of the totals table built from all_totals' mapping, before and
\* after the columns are formatted.
table_rows(totals) ==
    LET subtotals == subtotals_of
        total_sub == SumOver(subtotals, DOMAIN subtotals)
    IN  [p \in DOMAIN totals |->
            LET sub == IF p \in DOMAIN subtotals THEN subtotals[p] ELSE 0
                tax_share ==
                    IF total_sub > 0
                    THEN RatMul(RatDiv(Rat(sub, 1), Rat(total_sub, 1)), Rat(tax, 1))
                    ELSE Rat(0, 1)
            IN  [Subtotal |-> sub, Tax |-> tax_share, Total |-> totals[p]]]
df_totals(totals) ==
    [p \in DOMAIN totals |->
        [Subtotal |-> fmt_num(table_rows(totals)[p].Subtotal),
         Tax |-> fmt_amount(table_rows(totals)[p].Tax),
         Total |-> fmt_num(table_rows(totals)[p].Total)]]

(***************************************************************************)
(* Operations                                                              *)
(***************************************************************************)
\* add_item adding the quantity and the price to those of an existing item.
add_item_accumulate(name, qty, total_price) ==
    LET qty_f == ParseFloat(qty)
        price_f == ParseFloat(total_price)
        data == [qty |-> qty_f.val, total_price |-> price_f.val]
    IN  /\ UNCHANGED <<people, shares, tax>>
        /\ IF name = ""
           THEN /\ ret' = Result("add_item", "name_required", "", NoText, NoTotals)
                /\ UNCHANGED items
           ELSE IF ~qty_f.ok \/ ~price_f.ok
           THEN /\ ret' = Result("add_item", "must_be_numbers", "", NoText, NoTotals)
                /\ UNCHANGED items
           ELSE IF name \in DOMAIN items
           THEN /\ items' = [items EXCEPT ![name] =
                                [qty |-> @.qty + data.qty,
                                 total_price |-> @.total_price + data.total_price]]
                /\ ret' = Result("add_item", "updated", name, NoText, NoTotals)
           ELSE /\ items' = (name :> data) @@ items
                /\ ret' = Result("add_item", "added", name, NoText, NoTotals)

add_item(name, qty, total_price) ==
    LET qty_f == ParseFloat(qty)
        price_f == ParseFloat(total_price)
        data == [qty |-> qty_f.val, total_price |-> price_f.val]
    IN  /\ UNCHANGED <<people, shares, tax>>
        /\ IF name = ""
           THEN /\ ret' = Result("add_item", "name_required", "", NoText, NoTotals)
                /\ UNCHANGED items
           ELSE IF ~qty_f.ok \/ ~price_f.ok
           THEN /\ ret' = Result("add_item", "must_be_numbers", "", NoText, NoTotals)
                /\ UNCHANGED items
           ELSE IF name \in DOMAIN items
           THEN /\ items' = [items EXCEPT ![name] = data]
                /\ ret' = Result("add_item", "updated", name, NoText, NoTotals)
           ELSE /\ items' = (name :> data) @@ items
                /\ ret' = Result("add_item", "added", name, NoText, NoTotals)

\* email.strip() on the inputs used here.
Strip(email) == IF email = " a@x " THEN "a@x" ELSE email

\* add_person storing a new empty row (shares[name] = {}) every time.
add_person_new_row(name, email) ==
    /\ UNCHANGED <<items, tax>>
    /\ ret' = Result("add_person", "none", "", NoText, NoTotals)
    /\ IF name = ""
       THEN UNCHANGED <<people, shares>>
       ELSE /\ people' = (name :> [email |-> Strip(email)]) @@ people
            /\ shares' = (name :> <<>>) @@ shares

add_person(name, email) ==
    /\ UNCHANGED <<items, tax>>
    /\ ret' = Result("add_person", "none", "", NoText, NoTotals)
    /\ IF name = ""
       THEN UNCHANGED <<people, shares>>
       ELSE /\ people' = (name :> [email |-> Strip(email)]) @@ people
            /\ shares' = Touch(name)

\* assign_share that releases the caller's own hold before the capacity check.
assign_share_release(person, item, qty) ==
    LET qty_f == ParseFloat(qty)
        available == remaining_qty(item) + Get(Row(person), item, 0)
    IN  /\ UNCHANGED <<items, people, tax>>
        /\ IF person = "" \/ item = ""
           THEN /\ ret' = Result("assign_share", "select", "", NoText, NoTotals)
                /\ UNCHANGED shares
           ELSE IF item \notin DOMAIN items
           THEN /\ ret' = Result("assign_share", "not_found", item, NoText, NoTotals)
                /\ UNCHANGED shares
           ELSE IF ~qty_f.ok
           THEN /\ ret' = Result("assign_share", "ValueError", "", NoText, NoTotals)
                /\ UNCHANGED shares
           ELSE IF qty_f.val <= 0
           THEN /\ ret' = Result("assign_share", "qty_gt_0", "", NoText, NoTotals)
                /\ UNCHANGED shares
           ELSE IF qty_f.val > available
           THEN /\ ret' = Result("assign_share", "not_enough", item,
                                 float_str(available), NoTotals)
                /\ UNCHANGED shares
           ELSE /\ shares' = [Touch(person) EXCEPT ![person] =
                                Put(Row(person), item, Get(Row(person), item, 0) + qty_f.val)]
                /\ ret' = Result("assign_share", "none", "", NoText, NoTotals)

assign_share(person, item, qty) ==
    LET qty_f == ParseFloat(qty)
    IN  /\ UNCHANGED <<items, people, tax>>
        /\ IF person = "" \/ item = ""
           THEN /\ ret' = Result("assign_share", "select", "", NoText, NoTotals)
                /\ UNCHANGED shares
           ELSE IF item \notin DOMAIN items
           THEN /\ ret' = Result("assign_share", "not_found", item, NoText, NoTotals)
                /\ UNCHANGED shares
           ELSE IF ~qty_f.ok
           THEN \* float(qty) raises ValueError; nothing catches it
                /\ ret' = Result("assign_share", "ValueError", "", NoText, NoTotals)
                /\ UNCHANGED shares
           ELSE IF qty_f.val <= 0
           THEN /\ ret' = Result("assign_share", "qty_gt_0", "", NoText, NoTotals)
                /\ UNCHANGED shares
           ELSE IF qty_f.val > remaining_qty(item)
           THEN /\ ret' = Result("assign_share", "not_enough", item,
                                 float_str(remaining_qty(item)), NoTotals)
                /\ UNCHANGED shares
           ELSE /\ shares' = [Touch(person) EXCEPT ![person] =
                                Put(Row(person), item, Get(Row(person), item, 0) + qty_f.val)]
                /\ ret' = Result("assign_share", "none", "", NoText, NoTotals)

\* set_share with the capacity check made against the item's whole quantity
\* instead of what is available.
set_share_whole_qty(person, item, qty) ==
    LET qty_f == ParseFloat(qty)
    IN  /\ UNCHANGED <<items, people, tax>>
        /\ IF person = "" \/ item = ""
           THEN /\ ret' = Result("set_share", "select", "", NoText, NoTotals)
                /\ UNCHANGED shares
           ELSE IF item \notin DOMAIN items
           THEN /\ ret' = Result("set_share", "not_found", item, NoText, NoTotals)
                /\ UNCHANGED shares
           ELSE IF ~qty_f.ok
           THEN /\ ret' = Result("set_share", "qty_number", "", NoText, NoTotals)
                /\ UNCHANGED shares
           ELSE IF qty_f.val < 0
           THEN /\ ret' = Result("set_share", "qty_ge_0", "", NoText, NoTotals)
                /\ UNCHANGED shares
           ELSE IF qty_f.val > items[item].qty
           THEN /\ shares' = Touch(person)
                /\ ret' = Result("set_share", "not_enough", item,
                                 fmt_num(items[item].qty * 50), NoTotals)
           ELSE /\ shares' = [Touch(person) EXCEPT ![person] =
                                Put(Row(person), item, qty_f.val)]
                /\ ret' = Result("set_share", "none", "", NoText, NoTotals)

\* set_share that adds to the stored value instead of replacing it.
set_share_additive(person, item, qty) ==
    LET qty_f == ParseFloat(qty)
        current == Get(Row(person), item, 0)
        available == remaining_qty(item) + current
    IN  /\ UNCHANGED <<items, people, tax>>
        /\ IF person = "" \/ item = ""
           THEN /\ ret' = Result("set_share", "select", "", NoText, NoTotals)
                /\ UNCHANGED shares
           ELSE IF item \notin DOMAIN items
           THEN /\ ret' = Result("set_share", "not_found", item, NoText, NoTotals)
                /\ UNCHANGED shares
           ELSE IF ~qty_f.ok
           THEN /\ ret' = Result("set_share", "qty_number", "", NoText, NoTotals)
                /\ UNCHANGED shares
           ELSE IF qty_f.val < 0
           THEN /\ ret' = Result("set_share", "qty_ge_0", "", NoText, NoTotals)
                /\ UNCHANGED shares
           ELSE IF qty_f.val > available
           THEN /\ shares' = Touch(person)
                /\ ret' = Result("set_share", "not_enough", item,
                                 fmt_num(available * 50), NoTotals)
           ELSE /\ shares' = [Touch(person) EXCEPT ![person] =
                                Put(Row(person), item, current + qty_f.val)]
                /\ ret' = Result("set_share", "none", "", NoText, NoTotals)

\* set_share without the test qty < 0.
set_share_unsigned(person, item, qty) ==
    LET qty_f == ParseFloat(qty)
        current == Get(Row(person), item, 0)
        available == remaining_qty(item) + current
    IN  /\ UNCHANGED <<items, people, tax>>
        /\ IF person = "" \/ item = ""
           THEN /\ ret' = Result("set_share", "select", "", NoText, NoTotals)
                /\ UNCHANGED shares
           ELSE IF item \notin DOMAIN items
           THEN /\ ret' = Result("set_share", "not_found", item, NoText, NoTotals)
                /\ UNCHANGED shares
           ELSE IF ~qty_f.ok
           THEN /\ ret' = Result("set_share", "qty_number", "", NoText, NoTotals)
                /\ UNCHANGED shares
           ELSE IF qty_f.val > available
           THEN /\ shares' = Touch(person)
                /\ ret' = Result("set_share", "not_enough", item,
                                 fmt_num(available * 50), NoTotals)
           ELSE /\ shares' = [Touch(person) EXCEPT ![person] =
                                Put(Row(person), item, qty_f.val)]
                /\ ret' = Result("set_share", "none", "", NoText, NoTotals)

set_share(person, item, qty) ==
    LET qty_f == ParseFloat(qty)
        current == Get(Row(person), item, 0)
        available == remaining_qty(item) + current
    IN  /\ UNCHANGED <<items, people, tax>>
        /\ IF person = "" \/ item = ""
           THEN /\ ret' = Result("set_share", "select", "", NoText, NoTotals)
                /\ UNCHANGED shares
           ELSE IF item \notin DOMAIN items
           THEN /\ ret' = Result("set_share", "not_found", item, NoText, NoTotals)
                /\ UNCHANGED shares
           ELSE IF ~qty_f.ok
           THEN /\ ret' = Result("set_share", "qty_number", "", NoText, NoTotals)
                /\ UNCHANGED shares
           ELSE IF qty_f.val < 0
           THEN /\ ret' = Result("set_share", "qty_ge_0", "", NoText, NoTotals)
                /\ UNCHANGED shares
           ELSE IF qty_f.val > available
           THEN \* shares[person] was read on the defaultdict: the row now exists
                /\ shares' = Touch(person)
                /\ ret' = Result("set_share", "not_enough", item,
                                 fmt_num(available * 50), NoTotals)
           ELSE /\ shares' = [Touch(person) EXCEPT ![person] =
                                Put(Row(person), item, qty_f.val)]
                /\ ret' = Result("set_share", "none", "", NoText, NoTotals)

\* One run of the calculation section: the tax widget's value is stored, then
\* all_totals() reads shares[p] of every person and computes the totals.
calculate(t) ==
    /\ tax' = t
    /\ shares' = [p \in DOMAIN shares \cup DOMAIN people |-> Row(p)]
    /\ UNCHANGED <<items, people>>
    /\ ret' = Result("all_totals", "none", "", NoText, totals_with(t))

(***************************************************************************)
(* The session: every operation, on one catalog name ("Fries" is never     *)
(* added, so it is the unknown item).                                      *)
(***************************************************************************)
AddItem == \E name \in {"", "Burger"}, qty \in QtyInputs, price \in PriceInputs :
              add_item(name, qty, price)
AddPerson == \E name \in PersonNames \cup {""} : add_person(name, " a@x ")
AssignShare == \E person \in PersonNames \cup {""}, item \in ItemNames \cup {""},
                  qty \in QtyInputs : assign_share(person, item, qty)
SetShare == \E person \in PersonNames \cup {""}, item \in ItemNames \cup {""},
               qty \in QtyInputs : set_share(person, item, qty)
Calculate == \E t \in TaxInputs : calculate(t)

Next == AddItem \/ AddPerson \/ AssignShare \/ SetShare \/ Calculate

Spec == Init /\ [][Next]_vars

(***************************************************************************)
(* The ledger alone: from any catalog and roster with no allocations, only *)
(* set_share and assign_share are called.                                  *)
(***************************************************************************)
Catalogs ==
    UNION {[S -> {[qty |-> q, total_price |-> 1000] : q \in 0..MaxQty}] :
            S \in SUBSET ItemNames}
Rosters == UNION {[S -> {[email |-> "a@x"]}] : S \in SUBSET PersonNames}

InitLedger ==
    /\ items \in Catalogs
    /\ people \in Rosters
    /\ shares = [p \in DOMAIN people |-> <<>>]
    /\ tax = 0
    /\ ret = Result("start", "none", "", NoText, NoTotals)

LedgerAssign == AssignShare
LedgerSet == SetShare
NextLedger == LedgerAssign \/ LedgerSet

SpecLedger == InitLedger /\ [][NextLedger]_vars

(***************************************************************************)
(* The operations with the inputs the forms can give them: number inputs   *)
(* give numbers >= 0, the select boxes give a person of the roster and an  *)
(* item of the catalog.                                                    *)
(***************************************************************************)
FormQty == {Num(h) : h \in 0..MaxQty}

\* The item form's entries <<qty, total price>>: two priced items and a free
\* one of a smaller quantity.
ItemForms == {<<MaxQty, 1000>>, <<MaxQty, 500>>, <<1, 0>>}

FormAddItem == \E name \in ItemNames, f \in ItemForms :
                  add_item(name, Num(f[1]), Num(f[2]))
FormAddPerson == \E name \in PersonNames : add_person(name, "")
FormAssign == \E person \in DOMAIN people, item \in DOMAIN items, qty \in FormQty :
                 assign_share(person, item, qty)
FormUpdate == \E person \in DOMAIN people, item \in DOMAIN items, qty \in FormQty :
                 set_share(person, item, qty)
FormCalculate == \E t \in TaxInputs : calculate(t)

NextForms == FormAddItem \/ FormAddPerson \/ FormAssign \/ FormUpdate \/ FormCalculate

SpecForms == Init /\ [][NextForms]_vars

(***************************************************************************)
(* The catalog under valid entries: items are added and added again with   *)
(* numbers >= 0, Ann takes shares of them, and unit_price is called on any *)
(* name.                                                                   *)
(***************************************************************************)
\* A call of unit_price(item): items[item] raises KeyError when the catalog
\* has no such item, otherwise the unit price is returned (value).
call_unit_price(item) ==
    /\ UNCHANGED <<items, people, shares, tax>>
    /\ IF item \in DOMAIN items
       THEN ret' = [op |-> "unit_price", kind |-> "none", item |-> item,
                    num |-> NoText, totals |-> NoTotals,
                    value |-> unit_price(item)]
       ELSE ret' = Result("unit_price", "KeyError", item, NoText, NoTotals)

CatalogPrices == {Num(0), Num(1000)}

CatalogAddItem == \E name \in ItemNames, qty \in FormQty, price \in CatalogPrices :
                     add_item(name, qty, price)
CatalogAddPerson == add_person("Ann", "")
CatalogAssign == \E item \in DOMAIN items, qty \in FormQty :
                    "Ann" \in DOMAIN people /\ assign_share("Ann", item, qty)
CatalogUnitPrice == \E item \in ItemNames : call_unit_price(item)

NextCatalog == CatalogAddItem \/ CatalogAddPerson \/ CatalogAssign \/ CatalogUnitPrice

SpecCatalog == Init /\ [][NextCatalog]_vars

(***************************************************************************)
(* The roster: persons are added and added again with several e-mail       *)
(* entries while they take shares of one item.                             *)
(***************************************************************************)
RosterEmails == {"", " a@x ", "b@y"}

RosterAddItem == add_item("Burger", Num(MaxQty), Num(1000))
RosterAddPerson == \E name \in PersonNames \cup {""}, email \in RosterEmails :
                      add_person(name, email)
RosterAssign == \E person \in DOMAIN people, item \in DOMAIN items, qty \in FormQty :
                   assign_share(person, item, qty)

NextRoster == RosterAddItem \/ RosterAddPerson \/ RosterAssign

SpecRoster == Init /\ [][NextRoster]_vars

(***************************************************************************)
(* The rows: with two items in the catalog, persons are added, take and    *)
(* give back shares through the forms, and the totals are calculated.      *)
(***************************************************************************)
InitBreakdown ==
    /\ items = [i \in ItemNames |->
                  [qty |-> MaxQty,
                   total_price |-> IF i = "Burger" THEN 1000 ELSE 500]]
    /\ people = [p \in {} |-> [email |-> ""]]
    /\ shares = [p \in {} |-> <<>>]
    /\ tax = 0
    /\ ret = Result("start", "none", "", NoText, NoTotals)

BreakdownAddPerson == FormAddPerson
BreakdownAssign == FormAssign
BreakdownUpdate == FormUpdate
BreakdownCalculate == calculate(0)

NextBreakdown ==
    BreakdownAddPerson \/ BreakdownAssign \/ BreakdownUpdate \/ BreakdownCalculate

SpecBreakdown == InitBreakdown /\ [][NextBreakdown]_vars

(***************************************************************************)
(* Claims                                                                  *)
(***************************************************************************)
\* The messages that report a rejected allocation.
ShareErrors == {"select", "not_found", "qty_number", "qty_ge_0", "qty_gt_0", "not_enough"}
ShareOps == {"set_share", "assign_share"}

\* C1 (SpecLedger): from any catalog and roster with no allocations, after any
\* sequence of set_share and assign_share calls, accepted or rejected, the
\* entries of all ledger rows for an item sum to at most the item's quantity.
C1_Conservation == \A i \in DOMAIN items : used_in(shares, i) <= items[i].qty

\* An item is fully allocated, split between two rows, and a further
\* allocation was just rejected for lack of capacity.
C1_Witness ==
    /\ ret.op \in ShareOps /\ ret.kind = "not_enough"
    /\ \E i \in DOMAIN items :
          /\ used_in(shares, i) = items[i].qty
          /\ \A p \in PersonNames : share_of(shares, p, i) > 0

\* C2 (SpecForms): in every reachable state, under any interleaving of
\* add_item, add_person, set_share and assign_share, every item has an
\* allocated sum of at most its current quantity (remaining_qty >= 0), also
\* after an item was added again with another quantity.
C2_AllocationInvariant == \A i \in DOMAIN items : remaining_qty(i) >= 0

\* C3 (Spec): for a person of the roster, an item of the catalog and a number
\* q >= 0, set_share succeeds exactly when q <= remaining + the person's own
\* share and then stores q; otherwise it reports a capacity error carrying
\* that available amount and stores nothing.  When one person holds the whole
\* item and nobody else any of it, another person's positive request is
\* rejected with available = 0.
C3_Step(p, i, q) ==
    LET available == remaining_qty(i) + share_of(shares, p, i)
        held_by_other ==
            \E a \in DOMAIN shares \ {p} :
                /\ share_of(shares, a, i) = items[i].qty
                /\ \A o \in DOMAIN shares \ {a} : share_of(shares, o, i) = 0
    IN  /\ IF q <= available
           THEN /\ ret'.kind = "none"
                /\ share_of(shares', p, i) = q
           ELSE /\ ret'.kind = "not_enough"
                /\ ret'.num = fmt_num(available * 50)
                /\ share_of(shares', p, i) = share_of(shares, p, i)
        /\ (held_by_other /\ q > 0) =>
                (ret'.kind = "not_enough" /\ ret'.num = fmt_num(0))

C3_SetShareAbsolute ==
    [][ret'.op = "set_share" =>
          \A p \in DOMAIN people, i \in DOMAIN items, q \in 0..MaxQty :
              set_share(p, i, Num(q)) => C3_Step(p, i, q)]_vars

\* Ann holds the whole Burger and Bo's positive request was just rejected
\* with available = 0.
C3_Witness ==
    /\ {"Ann", "Bo"} \subseteq DOMAIN people /\ "Burger" \in DOMAIN items
    /\ items["Burger"].qty > 0
    /\ share_of(shares, "Ann", "Burger") = items["Burger"].qty
    /\ share_of(shares, "Bo", "Burger") = 0
    /\ ret.op = "set_share" /\ ret.kind = "not_enough" /\ ret.item = "Burger"
    /\ ret.num = fmt_num(0)

\* C4 (SpecLedger): allocations naming an unknown person or item are
\* rejected, so every allocated quantity of the ledger belongs to a person of
\* the roster and to an item of the catalog.
C4_LedgerRefersToRosterAndCatalog ==
    \A p \in DOMAIN shares : \A k \in 1..Len(shares[p]) :
        shares[p][k].qty > 0 => (p \in DOMAIN people /\ shares[p][k].item \in DOMAIN items)

\* C5 (Spec): every item of the catalog has quantity >= 0 and total price >= 0
\* (add_item rejects anything else).
C5_CatalogNonNegative ==
    \A i \in DOMAIN items : items[i].qty >= 0 /\ items[i].total_price >= 0

\* C6 (SpecLedger): whenever set_share or assign_share returns an error, the
\* whole state (catalog, roster, stored shares, rows and keys of the ledger)
\* is as it was before the call.
C6_NoPartialWrites ==
    [][(ret'.op \in ShareOps /\ ret'.kind \in ShareErrors) => state' = state]_vars

\* C7 (Spec): for a person of the roster and an item of the catalog,
\* assign_share(p, i, d) reports a validation error when d <= 0, a capacity
\* error when d > remaining_qty(i), both without storing anything, and
\* otherwise adds d to the person's share and takes exactly d from what
\* remains of the item.
C7_Step(p, i, d) ==
    IF d <= 0
    THEN ret'.kind = "qty_gt_0" /\ shares' = shares
    ELSE IF d > remaining_qty(i)
    THEN ret'.kind = "not_enough" /\ shares' = shares
    ELSE /\ ret'.kind = "none"
         /\ share_of(shares', p, i) = share_of(shares, p, i) + d
         /\ items'[i].qty - used_in(shares', i) = remaining_qty(i) - d

C7_AddShareAdditive ==
    [][ret'.op = "assign_share" =>
          \A p \in DOMAIN people, i \in DOMAIN items, d \in -1..MaxQty :
              assign_share(p, i, Num(d)) => C7_Step(p, i, d)]_vars

\* Both persons of the roster hold part of the Burger, nothing remains of
\* it, and the last call was an accepted assign_share.
C7_Witness ==
    /\ {"Ann", "Bo"} \subseteq DOMAIN people /\ "Burger" \in DOMAIN items
    /\ ret.op = "assign_share" /\ ret.kind = "none"
    /\ share_of(shares, "Ann", "Burger") > 0 /\ share_of(shares, "Bo", "Burger") > 0
    /\ remaining_qty("Burger") = 0

\* C8 (SpecLedger): no operation ends in an uncaught exception; every call
\* ends in success or in a returned error.
C8_NoUncaughtException == ret.kind # "ValueError"

\* C9 (Spec): the mapping all_totals returns holds exactly the persons of the
\* roster that have some strictly positive assigned quantity.
C9_Exclusion ==
    ret.op = "all_totals" =>
        /\ DOMAIN ret.totals \subseteq DOMAIN people
        /\ \A p \in DOMAIN people :
              p \in DOMAIN ret.totals <=>
                  \E i \in ItemNames : share_of(shares, p, i) > 0

\* all_totals was called while Ann, of the roster, holds only an entry that
\* was set back to 0, and Bo holds a positive share: Bo is in, Ann is not.
C9_Witness ==
    /\ ret.op = "all_totals"
    /\ {"Ann", "Bo"} \subseteq DOMAIN people
    /\ HasKey(Row("Ann"), "Burger") /\ share_of(shares, "Ann", "Burger") = 0
    /\ share_of(shares, "Bo", "Burger") > 0
    /\ DOMAIN ret.totals = {"Bo"}

\* The included participants and their rounded subtotals, in cents.
Included == {p \in DOMAIN people : \E i \in ItemNames : share_of(shares, p, i) > 0}
Sub(p) == Round2(person_total(p))
TotalSub == SumOver([p \in Included |-> Sub(p)], Included)

\* C10 as stated (SpecForms): when the rounded subtotals sum to totalSub > 0,
\* each included participant's total is exactly
\* subtotal + subtotal / totalSub * tax.
C10_ExactTotal ==
    (ret.op = "all_totals" /\ TotalSub > 0) =>
        /\ DOMAIN ret.totals = Included
        /\ \A p \in Included :
              ret.totals[p] * TotalSub = Sub(p) * TotalSub + Sub(p) * tax

\* C10 as amended (SpecForms): the total is that sum rounded to 2 decimals,
\* that is, within half a cent of subtotal + subtotal / totalSub * tax.
C10_RoundedTotal ==
    (ret.op = "all_totals" /\ TotalSub > 0) =>
        /\ DOMAIN ret.totals = Included
        /\ \A p \in Included :
              2 * Abs(ret.totals[p] * TotalSub - (Sub(p) * TotalSub + Sub(p) * tax))
                  <= TotalSub

\* The scenario of the claim at 1:1000: Burger 1 @ 10.00 taken by Ann, Fries
\* 1 @ 5.00 taken by Bo, tax 1.50; the totals are 11.00 and 5.50.
C10_Witness ==
    /\ ret.op = "all_totals" /\ tax = 150
    /\ DOMAIN items = {"Burger", "Fries"}
    /\ items["Burger"] = [qty |-> 2, total_price |-> 1000]
    /\ items["Fries"] = [qty |-> 2, total_price |-> 500]
    /\ share_of(shares, "Ann", "Burger") = 2 /\ share_of(shares, "Ann", "Fries") = 0
    /\ share_of(shares, "Bo", "Fries") = 2 /\ share_of(shares, "Bo", "Burger") = 0
    /\ ret.totals = [p \in {"Ann", "Bo"} |-> IF p = "Ann" THEN 1100 ELSE 550]

\* C11 as stated (SpecForms): whenever all_totals was computed with at least
\* one included participant, for any tax >= 0, the totals sum to the sum of
\* the rounded subtotals plus the whole tax, within 0.01 per included
\* participant.
C11_WholeTaxDistributed ==
    (ret.op = "all_totals" /\ Included # {}) =>
        /\ DOMAIN ret.totals = Included
        /\ Abs(SumOver(ret.totals, Included) - (TotalSub + tax))
              <= Cardinality(Included)

\* C11 as amended (SpecForms): the same, whenever the rounded subtotals of
\* the included participants sum to more than 0.
C11_TaxDistributedWhenPositive ==
    (ret.op = "all_totals" /\ Included # {} /\ TotalSub > 0) =>
        /\ DOMAIN ret.totals = Included
        /\ Abs(SumOver(ret.totals, Included) - (TotalSub + tax))
              <= Cardinality(Included)

\* Two participants with equal subtotals share a tax of 0.01: each total is
\* rounded (half a cent to even), so the totals sum to one cent less than
\* subtotals + tax, which is within the tolerance.
C11_Witness ==
    /\ ret.op = "all_totals" /\ tax = 1
    /\ Included = {"Ann", "Bo"}
    /\ Sub("Ann") = Sub("Bo") /\ Sub("Ann") > 0
    /\ SumOver(ret.totals, Included) = TotalSub

\* C12 (SpecForms): when there are included participants and their
\* subtotals sum to 0, all_totals returns a total of 0 for each of them
\* (tax share 0), whatever the tax amount.
C12_DegenerateSettlement ==
    (ret.op = "all_totals" /\ Included # {} /\ TotalSub = 0) =>
        /\ DOMAIN ret.totals = Included
        /\ \A p \in Included : ret.totals[p] = 0

\* Ann holds only a free item and all_totals was computed with tax 1.50.
C12_Witness ==
    /\ ret.op = "all_totals" /\ tax = 150
    /\ Included = {"Ann"}
    /\ \E i \in DOMAIN items :
          /\ items[i].total_price = 0
          /\ share_of(shares, "Ann", i) > 0
    /\ ret.totals["Ann"] = 0

\* C13 (SpecCatalog): a call of unit_price(name) never faults; it returns
\* total_price / qty when the item's quantity is > 0, and 0 when the
\* quantity is 0 and when the catalog has no item of that name.
C13_UnitPriceTotal ==
    ret.op = "unit_price" =>
        /\ ret.kind = "none"
        /\ IF ret.item \in DOMAIN items /\ items[ret.item].qty > 0
           THEN ret.value.n * items[ret.item].qty
                    = 2 * items[ret.item].total_price * ret.value.d
           ELSE ret.value.n = 0

\* C14 (Spec): in any reachable state, when add_item(n, q, p) has just been
\* called and is called again with the same arguments, the catalog, the
\* ledger and remaining_qty of every item are as the first call left them.
\* After a successful first call the catalog holds its arguments: the item
\* is ret.item, its entry is (q, p).  A call that was rejected is rejected
\* again with the same message.
C14_UpsertIdempotent ==
    [][(ret.op = "add_item" /\ ret'.op = "add_item") =>
          /\ (/\ ret.kind \in {"added", "updated"}
              /\ add_item(ret.item, Num(items[ret.item].qty),
                          Num(items[ret.item].total_price)))
                => /\ ret'.kind = "updated"
                   /\ items' = items /\ shares' = shares
                   /\ \A i \in DOMAIN items :
                         items'[i].qty - used_in(shares', i) = remaining_qty(i)
          /\ (ret.kind \in {"name_required", "must_be_numbers"} /\ ret'.kind = ret.kind)
                => state' = state]_vars

\* The Burger, of which Ann holds a share, was just added again.
C14_Witness ==
    /\ ret.op = "add_item" /\ ret.kind = "updated" /\ ret.item = "Burger"
    /\ items["Burger"].qty > 0
    /\ share_of(shares, "Ann", "Burger") > 0

\* The exact subtotal of p as one fraction SubNum(p) / SubDen, in cents: the
\* sum over the items of quantity other than 0 of share * total_price / qty.
RECURSIVE Prod(_, _)
Prod(f, S) ==
    IF S = {} THEN 1
    ELSE LET x == CHOOSE y \in S : TRUE IN f[x] * Prod(f, S \ {x})
Priced == {i \in DOMAIN items : items[i].qty # 0}
SubDen == Prod([i \in Priced |-> items[i].qty], Priced)
SubNum(p) ==
    SumOver([i \in Priced |->
                share_of(shares, p, i) * items[i].total_price
                    * Prod([j \in Priced |-> items[j].qty], Priced \ {i})],
            Priced)

\* C15 (SpecForms): when all_totals was computed with tax = 0, the total of
\* every included participant is that participant's subtotal rounded to 2
\* decimals (within half a cent of the exact subtotal).
C15_ZeroTaxIdentity ==
    (ret.op = "all_totals" /\ tax = 0) =>
        /\ DOMAIN ret.totals = Included
        /\ \A p \in Included :
              2 * Abs(ret.totals[p] * SubDen - SubNum(p)) <= SubDen

\* all_totals was computed with tax 0 while Ann holds half of the Burger and
\* all of the Fries, and Bo the other half of the Burger.
C15_Witness ==
    /\ ret.op = "all_totals" /\ tax = 0
    /\ DOMAIN items = {"Burger", "Fries"}
    /\ items["Burger"].total_price = 1000 /\ items["Fries"].total_price = 500
    /\ share_of(shares, "Ann", "Burger") = 1
    /\ share_of(shares, "Ann", "Fries") = items["Fries"].qty
    /\ share_of(shares, "Bo", "Burger") = items["Burger"].qty - 1
    /\ ret.totals["Ann"] * items["Burger"].qty = 1000 + 500 * items["Burger"].qty

\* C16 (Spec): after any sequence of add_item, add_person, set_share and
\* assign_share calls, with any input, every quantity stored in the ledger
\* is >= 0.
C16_AllocationsNonNegative ==
    \A p \in DOMAIN shares : \A k \in 1..Len(shares[p]) : shares[p][k].qty >= 0

\* Ann holds a share of the Burger and a set_share call with a negative
\* quantity was just rejected.
C16_Witness ==
    /\ ret.op = "set_share" /\ ret.kind = "qty_ge_0"
    /\ share_of(shares, "Ann", "Burger") > 0

\* C17 (Spec): whenever all_totals was computed, for every person of the
\* roster the email body and the totals table use the included persons and
\* the tax share all_totals used: the email's total_all is taken over the
\* persons of all_totals' mapping, the email's and the table's tax shares
\* are equal, each of them added to the subtotal and rounded to 2 decimals
\* gives all_totals' total, and the "Total you should pay" line shows the
\* total the table shows.  A person left out of the mapping gets subtotal 0
\* and tax share 0 in the email.
C17_SameTaxShareEverywhere ==
    ret.op = "all_totals" =>
        /\ email_included = DOMAIN ret.totals
        /\ \A p \in DOMAIN people :
              LET e == email_tax_split(p)
              IN  IF p \in DOMAIN ret.totals
                  THEN LET row == table_rows(ret.totals)[p]
                       IN  /\ e.subtotal = row.Subtotal
                           /\ e.tax_share.n * row.Tax.d = row.Tax.n * e.tax_share.d
                           /\ Round2(e.total_incl_tax) = ret.totals[p]
                           /\ Round2(RatAdd(Rat(row.Subtotal, 1), row.Tax))
                                 = ret.totals[p]
                           /\ e.total_line = df_totals(ret.totals)[p].Total
                  ELSE e.subtotal = 0 /\ e.tax_share.n = 0

\* all_totals was computed with tax 1.50 while Ann, of the roster, and Bo,
\* who is not in the roster, each hold part of the Burger: Ann's email
\* gives her the whole tax, as all_totals does.
C17_Witness ==
    /\ ret.op = "all_totals" /\ tax = 150
    /\ DOMAIN people = {"Ann"}
    /\ share_of(shares, "Ann", "Burger") > 0 /\ share_of(shares, "Bo", "Burger") > 0
    /\ items["Burger"].total_price > 0 /\ items["Burger"].qty > 0
    /\ email_tax_split("Ann").tax_share.n = 150 * email_tax_split("Ann").tax_share.d
    /\ ret.totals["Ann"] = email_tax_split("Ann").subtotal + 150

\* C18 (SpecRoster): add_person with an empty name changes nothing; with a
\* name it records the person with the stripped e-mail and the person has a
\* ledger row afterwards (an empty one if there was none); the catalog, the
\* tax, the other persons' contacts, every existing row (the person's own
\* allocations included) are unchanged.
C18_Step(name, email) ==
    /\ items' = items /\ tax' = tax
    /\ IF name = ""
       THEN people' = people /\ shares' = shares
       ELSE /\ DOMAIN people' = DOMAIN people \cup {name}
            /\ people'[name] = [email |-> IF email = " a@x " THEN "a@x" ELSE email]
            /\ \A o \in DOMAIN people \ {name} : people'[o] = people[o]
            /\ DOMAIN shares' = DOMAIN shares \cup {name}
            /\ \A o \in DOMAIN shares : shares'[o] = shares[o]
            /\ name \notin DOMAIN shares => shares'[name] = <<>>

C18_AddPersonFrame ==
    [][ret'.op = "add_person" =>
          \A name \in PersonNames \cup {""}, email \in RosterEmails :
              add_person(name, email) => C18_Step(name, email)]_vars

\* Ann is the only person of the roster, holds a share of the Burger, her
\* contact is "b@y", and the last call was add_person.
C18_Witness ==
    /\ ret.op = "add_person"
    /\ DOMAIN people = {"Ann"} /\ people["Ann"].email = "b@y"
    /\ share_of(shares, "Ann", "Burger") > 0

\* C19 (SpecBreakdown): person_breakdown(p) lists exactly the items of which p
\* holds a quantity > 0, each once with that quantity, in the order in which
\* p's entries were created.  Entries are created at the end of the row and
\* no call moves or removes one (first part, on every step), and the lines
\* follow the row's order (second part): so an item set to 0 leaves the list
\* and comes back at the place it had.
C19_KeyAt(row, item) == CHOOSE k \in 1..Len(row) : row[k].item = item

C19_KeysStay(p) ==
    /\ Len(shares'[p]) >= Len(shares[p])
    /\ \A k \in 1..Len(shares[p]) : shares'[p][k].item = shares[p][k].item

C19_Listing(p) ==
    LET bd == person_breakdown(p)
    IN  /\ {bd[a].item : a \in 1..Len(bd)}
              = {i \in ItemNames : share_of(shares, p, i) > 0}
        /\ \A a \in 1..Len(bd) : bd[a].qty = share_of(shares, p, bd[a].item)
        /\ \A a, b \in 1..Len(bd) :
              a < b => C19_KeyAt(shares[p], bd[a].item) < C19_KeyAt(shares[p], bd[b].item)

C19_BreakdownOrder ==
    [][\A p \in DOMAIN shares :
          /\ p \in DOMAIN shares'
          /\ C19_KeysStay(p)
          /\ C19_Listing(p)]_vars

\* Ann's entry for the Burger was created first and is now 0, her entry for
\* the Fries is positive: the breakdown lists the Fries only.
C19_Witness ==
    /\ "Ann" \in DOMAIN shares
    /\ Len(shares["Ann"]) = 2
    /\ shares["Ann"][1] = [item |-> "Burger", qty |-> 0]
    /\ shares["Ann"][2].item = "Fries" /\ shares["Ann"][2].qty > 0
    /\ Len(person_breakdown("Ann")) = 1
    /\ person_breakdown("Ann")[1].item = "Fries"

\* The sum of a function of fractions over a set.
RECURSIVE RatSumOver(_, _)
RatSumOver(f, S) ==
    IF S = {} THEN Rat(0, 1)
    ELSE LET x == CHOOSE y \in S : TRUE IN RatAdd(f[x], RatSumOver(f, S \ {x}))

\* C20 (SpecCatalog): in every reachable state the unrounded subtotals
\* (person_total) of all ledger rows sum to the sum over the items of the
\* allocated quantity times the unit price; when every item of quantity > 0
\* has remaining_qty 0 they sum to the total prices of those items; and they
\* never exceed the sum of the items' total prices.
C20_MoneyConservation ==
    LET subtotals == RatSumOver([p \in DOMAIN shares |-> person_total(p)], DOMAIN shares)
        allocated ==
            RatSumOver([i \in DOMAIN items |->
                           RatMul(Rat(used_qty(i), 2), unit_price(i))], DOMAIN items)
        stocked == {i \in DOMAIN items : items[i].qty > 0}
        price_of == [i \in DOMAIN items |-> items[i].total_price]
    IN  /\ subtotals.n * allocated.d = allocated.n * subtotals.d
        /\ (\A i \in stocked : remaining_qty(i) = 0)
              => subtotals.n = SumOver(price_of, stocked) * subtotals.d
        /\ subtotals.n <= SumOver(price_of, DOMAIN items) * subtotals.d

====
